---- MODULE Spec2Model ----
(***************************************************************************)
(* Model of the tracer repository: the span registry of src/Tracer.js and  *)
(* src/Tracer.go (the same registry written twice) and the context         *)
(* propagating tracer of src/tracer.go.                                    *)
(*                                                                         *)
(* Span objects are shared by reference between the registry and the       *)
(* caller, so they live in a heap: heap[h] is the object behind handle h,  *)
(* and handles are handed out in allocation order.  The registry maps a    *)
(* key to a sequence of handles.                                           *)
(*                                                                         *)
(* Specifications:                                                         *)
(*   Spec         the registry under any sequence of calls (JS or Go)      *)
(*   SpecSpan     the life of one span under every status/attribute        *)
(*                argument, with the clock advancing                       *)
(*   SpecExport   the registry exported, spans ended with the attribute    *)
(*                values each implementation takes                         *)
(*   SpecExample  runExample of Tracer.js, from its call of processOrder   *)
(*   SpecConc     Tracer.go's StartSpan called from several goroutines,    *)
(*                one memory access of the registry map at a time          *)
(*   SpecCtx      the context propagating tracer of src/tracer.go          *)
(***************************************************************************)
EXTENDS Integers, Sequences, FiniteSets, TLC

\* ---------------------------------------------------------------- bounds
MaxSpans == 2          \* span objects allocated in one run
NumProcs == 2          \* goroutines calling StartSpan at once
MaxTime  == 1          \* last reading of the clock
NumIds   == 2          \* size of the identifier space the generator draws from

Ids      == 1 .. NumIds
Null     == 0          \* null / nil / "" : no parent, no key
NoTime   == -1         \* endTime: null (JS) / nil (Go)
Names    == {"processOrder"}
Keys     == {"error", "rows"}
Vals     == {"10", "timeout"}
Statuses == {"UNSET", "OK", "ERROR"}
Omitted  == "omitted"  \* the status argument left out of a JS call

VARIABLES
    impl,      \* which tracer was constructed: "js", "go" or "ctx"
    heap,      \* the span objects, by handle
    traces,    \* this.traces / t.Traces: key -> sequence of handles
    now,       \* the clock
    last,      \* the last call and what it left for its caller
    pc,        \* SpecConc: where each goroutine is inside StartSpan
    loc,       \* SpecConc: the locals of each goroutine's call
    returned,  \* SpecConc: the handles StartSpan has returned
    alive,     \* FALSE once the Go runtime has ended the process
    example    \* SpecExample: where runExample is, and the calls it has made

vars == <<impl, heap, traces, now, last, pc, loc, returned, alive, example>>

conc == <<pc, loc, returned, alive>>

Procs == 1 .. NumProcs

\* ---------------------------------------------------------------- values
EmptyAttrs == [k \in {} |-> "10"]

AttrMaps == UNION {[D -> Vals] : D \in SUBSET Keys}

\* Values a JS caller can put in an attributes object besides strings:
\* endSpan spreads whatever it is given.
NaN       == "NaN"
Undefined == "undefined"

\* JSON's null where it stands for an attribute value.
JsonNull  == "null"

\* The attribute objects the export is tried with: none, or the one key
\* "rows" holding a string, NaN or undefined.
JsAttrMaps == {EmptyAttrs} \cup [{"rows"} -> Vals \cup {NaN, Undefined}]

\* A Go attribute map is a map[string]string.
GoAttrMaps == {EmptyAttrs} \cup [{"rows"} -> Vals]

EmptyTraces == [k \in {} |-> <<>>]

Handles == 1 .. Len(heap)

\* The locals of a StartSpan call that is not running.
NoLocals == [traceID |-> Null, span |-> 0, appended |-> <<>>]

\* context.Background(): carries no span and no trace id.
Background == [span |-> 0, traceID |-> Null]

\* runExample not called: the state of `example` in every specification but
\* SpecExample.
\*   pc        the statement the run is at
\*   step      which of Steps is being run (0: none yet)
\*   rootSpan  processOrder's rootSpan; span: the running step's span
\*   err       the message of the error thrown ("" when none)
\*   log       the calls made on the tracer and the throws and catches, in order
NotRunning ==
    [pc |-> "none", step |-> 0, rootSpan |-> 0, span |-> 0, err |-> "", log |-> <<>>]

\* What the last call was given and what it left for its caller.
\*   outcome  "ok", or the exception (JS) / panic (Go) that ended the call
\*   given    the context the call was given (src/tracer.go)
\*   ret      kind of the value returned; seq, ctx: that value
\*   out      what the call handed to its sink (console, logger)
\*   sink     whether the sink took it; logged: an error was printed
NoCall ==
    [op |-> "new", parent |-> Null, span |-> 0, status |-> Omitted,
     attrs |-> EmptyAttrs, key |-> Null, outcome |-> "ok", ret |-> "tracer",
     seq |-> <<>>, out |-> EmptyTraces, given |-> Background, ctx |-> Background,
     sink |-> "ok", logged |-> FALSE]

\* ---------------------------------------------------------------- Span
\* A slip: the span made with status OK instead of UNSET.
NewSpanOk(traceId, spanId, parentSpanId, name, startTime) ==
    [traceId      |-> traceId,
     spanId       |-> spanId,
     parentSpanId |-> parentSpanId,
     name         |-> name,
     startTime    |-> startTime,
     endTime      |-> NoTime,
     attributes   |-> EmptyAttrs,
     status       |-> "OK"]

\* A slip: endTime initialised to 0 instead of null.
NewSpanZeroEnd(traceId, spanId, parentSpanId, name, startTime) ==
    [traceId      |-> traceId,
     spanId       |-> spanId,
     parentSpanId |-> parentSpanId,
     name         |-> name,
     startTime    |-> startTime,
     endTime      |-> 0,
     attributes   |-> EmptyAttrs,
     status       |-> "UNSET"]

\* The object literal of startSpan / the &Span{...} of StartSpan.
NewSpan(traceId, spanId, parentSpanId, name, startTime) ==
    [traceId      |-> traceId,
     spanId       |-> spanId,
     parentSpanId |-> parentSpanId,
     name         |-> name,
     startTime    |-> startTime,
     endTime      |-> NoTime,
     attributes   |-> EmptyAttrs,
     status       |-> "UNSET"]

\* crypto.randomBytes(16).toString('hex'): any identifier may come out, and
\* the generator remembers nothing of what it gave before.
generateSecureId == Ids

\* rand.Read + hex.EncodeToString, the same generator in Go.
generateSecureID == Ids

\* A slip: span.attributes = attributes, the old attributes dropped.
SpreadReplace(a, b) == b

\* { ...span.attributes, ...attributes }: b laid over a.
Spread(a, b) ==
    [k \in (DOMAIN a) \cup (DOMAIN b) |-> IF k \in DOMAIN b THEN b[k] ELSE a[k]]

\* for k, v := range attributes { span.Attributes[k] = v }
RangeAssign(a, b) ==
    [k \in (DOMAIN a) \cup (DOMAIN b) |-> IF k \in DOMAIN b THEN b[k] ELSE a[k]]

\* A slip: unshift instead of push, the new span put first.
PushFront(tr, traceId, h) ==
    IF traceId \in DOMAIN tr
    THEN [tr EXCEPT ![traceId] = <<h>> \o @]
    ELSE [k \in (DOMAIN tr) \cup {traceId} |-> IF k = traceId THEN <<h>> ELSE tr[k]]

\* A slip: the emptiness test dropped, a new array made on every call.
PushNew(tr, traceId, h) ==
    [k \in (DOMAIN tr) \cup {traceId} |-> IF k = traceId THEN <<h>> ELSE tr[k]]

\* if (!this.traces[traceId]) this.traces[traceId] = [];  push(span)
\* if _, ok := t.Traces[traceID]; !ok {...};  append
Push(tr, traceId, h) ==
    IF traceId \in DOMAIN tr
    THEN [tr EXCEPT ![traceId] = Append(@, h)]
    ELSE [k \in (DOMAIN tr) \cup {traceId} |-> IF k = traceId THEN <<h>> ELSE tr[k]]

\* this.traces[parentSpanId][0] can be read: the registry is indexed with the
\* parent's span id, and the entry found there has a first element.
HasFirst(tr, parentSpanId) ==
    /\ parentSpanId \in DOMAIN tr
    /\ tr[parentSpanId] # <<>>

\* ---------------------------------------------------------------- Tracer.js
startSpan(name, parentSpanId) ==
    /\ impl = "js"
    /\ IF parentSpanId # Null /\ ~HasFirst(traces, parentSpanId)
       THEN \* reading [0] of undefined (or .traceId of undefined) throws
            /\ last' = [NoCall EXCEPT !.op = "startSpan", !.parent = parentSpanId,
                                      !.outcome = "TypeError", !.ret = "none"]
            /\ UNCHANGED <<heap, traces>>
       ELSE \E gen \in generateSecureId, spanId \in generateSecureId :
              LET traceId == IF parentSpanId # Null
                             THEN heap[traces[parentSpanId][1]].traceId
                             ELSE gen
                  h == Len(heap) + 1
              IN  /\ heap' = Append(heap, NewSpan(traceId, spanId, parentSpanId, name, now))
                  /\ traces' = Push(traces, traceId, h)
                  /\ last' = [NoCall EXCEPT !.op = "startSpan", !.parent = parentSpanId,
                                            !.span = h, !.ret = "span"]
    /\ UNCHANGED <<impl, now, conc>>

\* A slip: the default left out, the status staying undefined (UNSET here).
StatusNoDefault(status) == IF status = Omitted THEN "UNSET" ELSE status

\* The default parameter status = 'OK': it stands in when the argument is left
\* out (undefined), and any argument that is passed is taken as it is.
StatusOrDefault(status) == IF status = Omitted THEN "OK" ELSE status

endSpan(span, status, attributes) ==
    /\ impl = "js"
    /\ span \in Handles
    /\ heap' = [heap EXCEPT ![span] =
                  [@ EXCEPT !.endTime = now,
                            !.status = StatusOrDefault(status),
                            !.attributes = Spread(@, attributes)]]
    /\ last' = [NoCall EXCEPT !.op = "endSpan", !.span = span, !.status = status,
                              !.attrs = attributes, !.ret = "none"]
    /\ UNCHANGED <<impl, traces, now, conc>>

getTrace(traceId) ==
    /\ impl = "js"
    /\ last' = IF traceId \in DOMAIN traces
               THEN [NoCall EXCEPT !.op = "getTrace", !.key = traceId,
                                   !.ret = "array", !.seq = traces[traceId]]
               ELSE [NoCall EXCEPT !.op = "getTrace", !.key = traceId,
                                   !.ret = "undefined"]
    /\ UNCHANGED <<impl, heap, traces, now, conc>>

\* How JSON.stringify writes an object of attribute values: a property whose
\* value is undefined is left out, NaN is written as null, a string as itself.
JSONStringifyObject(a) ==
    [k \in {x \in DOMAIN a : a[x] # Undefined} |->
       IF a[k] = NaN THEN JsonNull ELSE a[k]]

\* JSON.stringify(this.traces, null, 2): every key with its array, every span
\* with all eight properties; null is written as null.
JSONStringify(tr, hp) ==
    [k \in DOMAIN tr |->
       [i \in 1 .. Len(tr[k]) |->
          LET s == hp[tr[k][i]]
          IN  [traceId |-> s.traceId, spanId |-> s.spanId,
               parentSpanId |-> s.parentSpanId, name |-> s.name,
               startTime |-> s.startTime, endTime |-> s.endTime,
               attributes |-> JSONStringifyObject(s.attributes),
               status |-> s.status]]]

\* A slip: the registry emptied once it has been written out (a flush).
exportTracesFlush ==
    /\ impl = "js"
    /\ last' = [NoCall EXCEPT !.op = "exportTraces", !.ret = "none",
                              !.out = JSONStringify(traces, heap)]
    /\ traces' = EmptyTraces
    /\ UNCHANGED <<impl, heap, now, conc>>

exportTraces ==
    /\ impl = "js"
    /\ last' = [NoCall EXCEPT !.op = "exportTraces", !.ret = "none",
                              !.out = JSONStringify(traces, heap)]
    /\ UNCHANGED <<impl, heap, traces, now, conc>>

\* ---------------------------------------------------------------- Tracer.go
\* The fields of Span by their json tags; the two tagged omitempty are left
\* out when they hold "" and nil.
SpanFields ==
    {"traceId", "spanId", "parentSpanId", "name", "startTime", "endTime",
     "attributes", "status"}

Omitempty(s) ==
    (IF s.parentSpanId = Null THEN {"parentSpanId"} ELSE {})
      \cup (IF s.endTime = NoTime THEN {"endTime"} ELSE {})

\* json.MarshalIndent(t.Traces, "", "  ")
MarshalIndent(tr, hp) ==
    [k \in DOMAIN tr |->
       [i \in 1 .. Len(tr[k]) |->
          LET s == hp[tr[k][i]]
          IN  [f \in SpanFields \ Omitempty(s) |-> s[f]]]]

\* What a field of Span holds when the document does not name it.
ZeroValue(f) ==
    CASE f = "parentSpanId" -> Null
      [] f = "endTime"      -> NoTime

\* The document read back into map[string][]*Span through the json tags of
\* Span: a field the document names takes its value, any other stays zero.
Unmarshal(doc) ==
    [k \in DOMAIN doc |->
       [i \in 1 .. Len(doc[k]) |->
          [f \in SpanFields |->
             IF f \in DOMAIN doc[k][i] THEN doc[k][i][f] ELSE ZeroValue(f)]]]

StartSpan(name, parentSpanID) ==
    /\ impl = "go"
    /\ IF parentSpanID # Null /\ ~HasFirst(traces, parentSpanID)
       THEN \* t.Traces[*parentSpanID] is a nil slice: [0] is out of range
            /\ last' = [NoCall EXCEPT !.op = "StartSpan", !.parent = parentSpanID,
                                      !.outcome = "panic", !.ret = "none"]
            /\ UNCHANGED <<heap, traces>>
       ELSE \E gen \in generateSecureID, spanID \in generateSecureID :
              LET traceID == IF parentSpanID # Null
                             THEN heap[traces[parentSpanID][1]].traceId
                             ELSE gen
                  h == Len(heap) + 1
              IN  /\ heap' = Append(heap, NewSpan(traceID, spanID, parentSpanID, name, now))
                  /\ traces' = Push(traces, traceID, h)
                  /\ last' = [NoCall EXCEPT !.op = "StartSpan", !.parent = parentSpanID,
                                            !.span = h, !.ret = "span"]
    /\ UNCHANGED <<impl, now, conc>>

EndSpan(span, status, attributes) ==
    /\ impl = "go"
    /\ span \in Handles
    /\ heap' = [heap EXCEPT ![span] =
                  [@ EXCEPT !.endTime = now,
                            !.status = status,
                            !.attributes = RangeAssign(@, attributes)]]
    /\ last' = [NoCall EXCEPT !.op = "EndSpan", !.span = span, !.status = status,
                              !.attrs = attributes, !.ret = "none"]
    /\ UNCHANGED <<impl, traces, now, conc>>

GetTrace(traceID) ==
    /\ impl = "go"
    /\ last' = IF traceID \in DOMAIN traces
               THEN [NoCall EXCEPT !.op = "GetTrace", !.key = traceID,
                                   !.ret = "slice", !.seq = traces[traceID]]
               ELSE \* the zero value of []*Span: a nil slice, of length 0
                    [NoCall EXCEPT !.op = "GetTrace", !.key = traceID,
                                   !.ret = "slice", !.seq = <<>>]
    /\ UNCHANGED <<impl, heap, traces, now, conc>>

\* Strings, times and string maps always encode, so MarshalIndent returns no
\* error here and log.Fatalf is not reached.  What fmt.Println returns is
\* dropped: whether standard output took the text (stdoutOk) changes nothing
\* the caller can see.
ExportTraces(stdoutOk) ==
    /\ impl = "go"
    /\ last' = [NoCall EXCEPT !.op = "ExportTraces", !.ret = "none",
                              !.out = IF stdoutOk THEN MarshalIndent(traces, heap)
                                                  ELSE EmptyTraces,
                              !.sink = IF stdoutOk THEN "ok" ELSE "failed"]
    /\ UNCHANGED <<impl, heap, traces, now, conc>>

\* ------------------------------------------------- Tracer.go, goroutines
\* StartSpan takes no lock, so a call from goroutine g is a series of
\* accesses to t.Traces that the calls of other goroutines come between.

\* Lines 44-67: resolve the trace id (a read of the map), generate the span
\* id, build the span.  A panic no one recovers ends the process.
StartSpan_resolve(g, name, parentSpanID) ==
    /\ impl = "go" /\ alive
    /\ pc[g] = "idle"
    /\ IF parentSpanID # Null /\ ~HasFirst(traces, parentSpanID)
       THEN /\ alive' = FALSE
            /\ pc' = [pc EXCEPT ![g] = "panic"]
            /\ UNCHANGED <<heap, loc>>
       ELSE \E gen \in generateSecureID, spanID \in generateSecureID :
              LET traceID == IF parentSpanID # Null
                             THEN heap[traces[parentSpanID][1]].traceId
                             ELSE gen
                  h == Len(heap) + 1
              IN  /\ heap' = Append(heap, NewSpan(traceID, spanID, parentSpanID, name, now))
                  /\ loc' = [loc EXCEPT ![g] = [traceID |-> traceID, span |-> h,
                                                appended |-> <<>>]]
                  /\ pc' = [pc EXCEPT ![g] = "lookup"]
                  /\ UNCHANGED alive
    /\ UNCHANGED <<impl, traces, now, last, returned>>

\* Line 69: _, ok := t.Traces[traceID]
StartSpan_lookup(g) ==
    /\ impl = "go" /\ alive
    /\ pc[g] = "lookup"
    /\ pc' = [pc EXCEPT ![g] = IF loc[g].traceID \in DOMAIN traces
                               THEN "append" ELSE "insert"]
    /\ UNCHANGED <<impl, heap, traces, now, last, loc, returned, alive>>

\* Line 70: t.Traces[traceID] = []*Span{}
StartSpan_insert(g) ==
    /\ impl = "go" /\ alive
    /\ pc[g] = "insert"
    /\ traces' = [k \in (DOMAIN traces) \cup {loc[g].traceID} |->
                    IF k = loc[g].traceID THEN <<>> ELSE traces[k]]
    /\ pc' = [pc EXCEPT ![g] = "append"]
    /\ UNCHANGED <<impl, heap, now, last, loc, returned, alive>>

\* Line 73, right-hand side: append(t.Traces[traceID], span).  Two appends
\* to one slice yield two slices that each hold one of the two spans, be it
\* in arrays of their own or in one shared array.
StartSpan_append(g) ==
    /\ impl = "go" /\ alive
    /\ pc[g] = "append"
    /\ loc' = [loc EXCEPT ![g].appended =
                  Append(IF loc[g].traceID \in DOMAIN traces
                         THEN traces[loc[g].traceID] ELSE <<>>, loc[g].span)]
    /\ pc' = [pc EXCEPT ![g] = "store"]
    /\ UNCHANGED <<impl, heap, traces, now, last, returned, alive>>

\* Line 73, the assignment, and line 74: return span.
StartSpan_store(g) ==
    /\ impl = "go" /\ alive
    /\ pc[g] = "store"
    /\ traces' = [k \in (DOMAIN traces) \cup {loc[g].traceID} |->
                    IF k = loc[g].traceID THEN loc[g].appended ELSE traces[k]]
    /\ returned' = returned \cup {loc[g].span}
    /\ loc' = [loc EXCEPT ![g] = NoLocals]
    /\ pc' = [pc EXCEPT ![g] = "idle"]
    /\ UNCHANGED <<impl, heap, now, last, alive>>

\* A write of the map while another goroutine is at the map is a data race:
\* besides the interleavings above, the runtime may stop the process with
\* "fatal error: concurrent map writes".
StartSpan_fatal ==
    /\ impl = "go" /\ alive
    /\ \E g1, g2 \in Procs :
         /\ g1 # g2
         /\ pc[g1] \in {"insert", "store"}
         /\ pc[g2] \in {"lookup", "insert", "append", "store"}
    /\ alive' = FALSE
    /\ UNCHANGED <<impl, heap, traces, now, last, pc, loc, returned>>

\* ---------------------------------------------------------------- tracer.go
\* A context is what ctx.Value("span") and ctx.Value("traceID") give: a span
\* handle (0: none) and a trace id (Null: none).

\* A slip: the second WithValue left out, the trace id not put in the context.
WithSpanOnly(h, traceID) == [span |-> h, traceID |-> Null]

\* The context.WithValue chain StartSpan returns for span h.
WithSpan(h, traceID) == [span |-> h, traceID |-> traceID]

\* The contexts a caller can hold: the background, what StartSpan returned
\* for each span, and a context the caller gave a span but no trace id.
Contexts ==
    {Background}
      \cup {WithSpan(h, heap[h].traceId) : h \in Handles}
      \cup {WithSpan(h, Null) : h \in Handles}

CtxStartSpan(ctx, name) ==
    /\ impl = "ctx"
    /\ IF ctx.span # 0 /\ ctx.traceID = Null
       THEN \* ctx.Value("traceID").(string) on a nil interface panics
            /\ last' = [NoCall EXCEPT !.op = "CtxStartSpan", !.given = ctx,
                                      !.outcome = "panic", !.ret = "none"]
            /\ UNCHANGED heap
       ELSE \E gen \in generateSecureID, spanID \in generateSecureID :
              LET parentSpanID == IF ctx.span # 0 THEN heap[ctx.span].spanId ELSE Null
                  traceID == IF ctx.span # 0 THEN ctx.traceID ELSE gen
                  h == Len(heap) + 1
              IN  /\ heap' = Append(heap, NewSpan(traceID, spanID, parentSpanID, name, now))
                  /\ last' = [NoCall EXCEPT !.op = "CtxStartSpan", !.given = ctx,
                                            !.parent = parentSpanID, !.span = h,
                                            !.ctx = WithSpan(h, traceID),
                                            !.ret = "ctx,span"]
    /\ UNCHANGED <<impl, traces, now, conc>>

\* logOk: whether t.Logger.LogData(data) returned nil.  Its error is handed
\* to log.Printf and goes no further; EndSpan has no result.
CtxEndSpan(ctx, span, status, attributes, logOk) ==
    /\ impl = "ctx"
    /\ span \in Handles
    /\ LET ended == [heap[span] EXCEPT !.endTime = now,
                                       !.status = status,
                                       !.attributes = RangeAssign(@, attributes)]
           data == [traceId |-> ended.traceId, spanId |-> ended.spanId,
                    parentSpanId |-> ended.parentSpanId, name |-> ended.name,
                    startTime |-> ended.startTime, endTime |-> ended.endTime,
                    attributes |-> ended.attributes, status |-> ended.status]
       IN  /\ heap' = [heap EXCEPT ![span] = ended]
           /\ last' = [NoCall EXCEPT !.op = "CtxEndSpan", !.span = span,
                                     !.status = status, !.attrs = attributes,
                                     !.ret = "none",
                                     !.out = IF logOk THEN data ELSE EmptyTraces,
                                     !.sink = IF logOk THEN "ok" ELSE "failed",
                                     !.logged = ~logOk]
    /\ UNCHANGED <<impl, traces, now, conc>>

\* ------------------------------------------------- Tracer.js, the example
\* runExample() at the end of Tracer.js.  It is one chain of async functions,
\* each awaited by its caller, so a single position follows it; nothing else
\* runs beside it but the clock.  The only call in it that can throw is
\* startSpan: the timer promises never reject, so the catch blocks of the
\* three steps are never entered and are not modelled.

\* The three steps processOrder awaits, in the order it awaits them.
Steps == <<"validateOrder", "updateInventory", "processPayment">>

\* err.message of the TypeError that startSpan throws.
TypeErrorMessage == "Cannot read properties of undefined (reading '0')"

Logged(op, span) == Append(example.log, [op |-> op, span |-> span])

\* const rootSpan = tracer.startSpan('processOrder'), before the try.
processOrder_startSpan ==
    /\ example.pc = "processOrder"
    /\ startSpan("processOrder", Null)
    /\ example' = [example EXCEPT !.pc = "step", !.step = 1,
                                  !.rootSpan = last'.span,
                                  !.log = Logged("startSpan", last'.span)]

\* await <step>(tracer, orderId, rootSpan.spanId), up to the step's own await:
\* const span = tracer.startSpan('<step>', parentSpanId), before the step's
\* try.  When startSpan throws, the step's promise rejects and processOrder's
\* catch is next.
step_startSpan ==
    /\ example.pc = "step"
    /\ startSpan(Steps[example.step], heap[example.rootSpan].spanId)
    /\ example' =
         IF last'.outcome = "ok"
         THEN [example EXCEPT !.pc = "timer", !.span = last'.span,
                              !.log = Logged("startSpan", last'.span)]
         ELSE [example EXCEPT !.pc = "catch", !.err = TypeErrorMessage,
                              !.log = Logged("throw", 0)]

\* The step's timer fires (at whatever the clock then reads) and the step
\* goes on: tracer.endSpan(span, 'OK'); its promise resolves and processOrder
\* goes on to the next await, or past the last one.
step_endSpan ==
    /\ example.pc = "timer"
    /\ endSpan(example.span, "OK", EmptyAttrs)
    /\ example' = [example EXCEPT
                     !.pc = IF example.step < Len(Steps) THEN "step" ELSE "processed",
                     !.step = IF example.step < Len(Steps) THEN @ + 1 ELSE @,
                     !.log = Logged("endSpan", example.span)]

\* tracer.endSpan(rootSpan, 'OK'), the end of processOrder's try.
processOrder_endSpan ==
    /\ example.pc = "processed"
    /\ endSpan(example.rootSpan, "OK", EmptyAttrs)
    /\ example' = [example EXCEPT !.pc = "export",
                                  !.log = Logged("endSpan", example.rootSpan)]

\* A slip: the catch rethrows without ending the root span.
processOrder_catchNoEnd ==
    /\ example.pc = "catch"
    /\ example' = [example EXCEPT !.pc = "rethrown"]
    /\ UNCHANGED <<impl, heap, traces, now, last, conc>>

\* A slip: the catch ends the root span and does not rethrow.
processOrder_catchNoThrow ==
    /\ example.pc = "catch"
    /\ endSpan(example.rootSpan, "ERROR", [k \in {"error"} |-> example.err])
    /\ example' = [example EXCEPT !.pc = "export",
                                  !.log = Logged("endSpan", example.rootSpan)]

\* catch (err) { tracer.endSpan(rootSpan, 'ERROR', { error: err.message });
\* throw err; }
processOrder_catch ==
    /\ example.pc = "catch"
    /\ endSpan(example.rootSpan, "ERROR", [k \in {"error"} |-> example.err])
    /\ example' = [example EXCEPT !.pc = "rethrown",
                                  !.log = Logged("endSpan", example.rootSpan)]

\* myTracer.exportTraces(), after await processOrder(...) has resolved.
runExample_exportTraces ==
    /\ example.pc = "export"
    /\ exportTraces
    /\ example' = [example EXCEPT !.pc = "done",
                                  !.log = Logged("exportTraces", 0)]

\* catch (error) { console.log('process order failed'); }
runExample_catch ==
    /\ example.pc = "rethrown"
    /\ example' = [example EXCEPT !.pc = "failed", !.log = Logged("catch", 0)]
    /\ UNCHANGED <<impl, heap, traces, now, last, conc>>

\* ---------------------------------------------------------------- clock
\* Date.now() / time.Now() read `now`; the clock moves between calls.
Tick ==
    /\ now < MaxTime
    /\ now' = now + 1
    /\ UNCHANGED <<impl, heap, traces, last, conc>>

\* ---------------------------------------------------------------- Spec
Init ==
    /\ impl \in {"js", "go"}
    /\ example = NotRunning
    /\ heap = <<>>
    /\ traces = EmptyTraces
    /\ now = 0
    /\ last = NoCall
    /\ pc = [g \in Procs |-> "idle"]
    /\ loc = [g \in Procs |-> NoLocals]
    /\ returned = {}
    /\ alive = TRUE

\* Any sequence of calls on one registry.  No call reads a time field, so
\* the registry is followed within one reading of the clock, and spans are
\* ended the plain way, endSpan(span) / EndSpan(span, "OK", nil); SpecSpan
\* varies the arguments and lets the clock advance.
Next ==
    \/ \E name \in Names, p \in Ids \cup {Null} :
         Len(heap) < MaxSpans /\ startSpan(name, p) /\ UNCHANGED example
    \/ \E h \in Handles : endSpan(h, Omitted, EmptyAttrs) /\ UNCHANGED example
    \/ \E t \in Ids : getTrace(t) /\ UNCHANGED example
    \/ exportTraces /\ UNCHANGED example
    \/ \E name \in Names, p \in Ids \cup {Null} :
         Len(heap) < MaxSpans /\ StartSpan(name, p) /\ UNCHANGED example
    \/ \E h \in Handles : EndSpan(h, "OK", EmptyAttrs) /\ UNCHANGED example
    \/ \E t \in Ids : GetTrace(t) /\ UNCHANGED example
    \/ \E stdoutOk \in BOOLEAN : ExportTraces(stdoutOk) /\ UNCHANGED example

Spec == Init /\ [][Next]_vars

\* ---------------------------------------------------------------- SpecSpan
\* One span from its creation on: every status and attribute argument, ended
\* any number of times, while the clock advances.
NextSpan ==
    \/ \E name \in Names : heap = <<>> /\ startSpan(name, Null) /\ UNCHANGED example
    \/ \E h \in Handles, st \in Statuses \cup {Omitted}, a \in AttrMaps :
         endSpan(h, st, a) /\ UNCHANGED example
    \/ \E name \in Names : heap = <<>> /\ StartSpan(name, Null) /\ UNCHANGED example
    \/ \E h \in Handles, st \in Statuses, a \in AttrMaps : EndSpan(h, st, a) /\ UNCHANGED example
    \/ Tick /\ UNCHANGED example

SpecSpan == Init /\ [][NextSpan]_vars

\* -------------------------------------------------------------- SpecExport
\* The registry filled and exported, spans ended with the attribute values
\* each implementation takes.
NextExport ==
    \/ \E name \in Names, p \in Ids \cup {Null} :
         Len(heap) < MaxSpans /\ startSpan(name, p) /\ UNCHANGED example
    \/ \E h \in Handles, a \in JsAttrMaps : endSpan(h, "OK", a) /\ UNCHANGED example
    \/ exportTraces /\ UNCHANGED example
    \/ \E name \in Names, p \in Ids \cup {Null} :
         Len(heap) < MaxSpans /\ StartSpan(name, p) /\ UNCHANGED example
    \/ \E h \in Handles, a \in GoAttrMaps : EndSpan(h, "OK", a) /\ UNCHANGED example
    \/ ExportTraces(TRUE) /\ UNCHANGED example
    \/ Tick /\ UNCHANGED example

SpecExport == Init /\ [][NextExport]_vars

\* ------------------------------------------------------------- SpecExample
\* runExample has made its tracer (new Tracer) and called processOrder.
InitExample ==
    /\ impl = "js"
    /\ heap = <<>>
    /\ traces = EmptyTraces
    /\ now = 0
    /\ last = NoCall
    /\ pc = [g \in Procs |-> "idle"]
    /\ loc = [g \in Procs |-> NoLocals]
    /\ returned = {}
    /\ alive = TRUE
    /\ example = [NotRunning EXCEPT !.pc = "processOrder"]

NextExample ==
    \/ processOrder_startSpan
    \/ step_startSpan
    \/ step_endSpan
    \/ processOrder_endSpan
    \/ processOrder_catch
    \/ runExample_exportTraces
    \/ runExample_catch
    \/ Tick /\ UNCHANGED example

SpecExample == InitExample /\ [][NextExample]_vars

\* ---------------------------------------------------------------- SpecConc
InitConc ==
    /\ Init
    /\ impl = "go"

NextConc ==
    \/ \E g \in Procs, name \in Names, p \in Ids \cup {Null} :
         Len(heap) < MaxSpans /\ StartSpan_resolve(g, name, p) /\ UNCHANGED example
    \/ \E g \in Procs : StartSpan_lookup(g) /\ UNCHANGED example
    \/ \E g \in Procs : StartSpan_insert(g) /\ UNCHANGED example
    \/ \E g \in Procs : StartSpan_append(g) /\ UNCHANGED example
    \/ \E g \in Procs : StartSpan_store(g) /\ UNCHANGED example
    \/ StartSpan_fatal /\ UNCHANGED example

SpecConc == InitConc /\ [][NextConc]_vars

\* ---------------------------------------------------------------- SpecCtx
InitCtx ==
    /\ impl = "ctx"
    /\ example = NotRunning
    /\ heap = <<>>
    /\ traces = EmptyTraces
    /\ now = 0
    /\ last = NoCall
    /\ pc = [g \in Procs |-> "idle"]
    /\ loc = [g \in Procs |-> NoLocals]
    /\ returned = {}
    /\ alive = TRUE

NextCtx ==
    \/ \E ctx \in Contexts, name \in Names :
         Len(heap) < MaxSpans /\ CtxStartSpan(ctx, name) /\ UNCHANGED example
    \/ \E h \in Handles, st \in {"OK", "ERROR"}, logOk \in BOOLEAN :
         CtxEndSpan(WithSpan(h, heap[h].traceId), h, st, EmptyAttrs, logOk) /\ UNCHANGED example

SpecCtx == InitCtx /\ [][NextCtx]_vars

\* ================================================================ claims
StartOps == {"startSpan", "StartSpan"}
EndOps   == {"endSpan", "EndSpan"}
GetOps   == {"getTrace", "GetTrace"}

\* The spans that were in the registry before the last call: every span but
\* the one that call returned.
Before == Handles \ {last.span}

\* The handles of the spans whose traceId is t, in the order StartSpan made them.
ByCreation(t) ==
    SelectSeq([h \in Handles |-> h], LAMBDA h : heap[h].traceId = t)

Stored(t) == IF t \in DOMAIN traces THEN traces[t] ELSE <<>>

\* C1: StartSpan(name, p), p the spanId of a stored span, completes without
\* error and returns a span with parentSpanId p and the traceId of the span
\* whose spanId is p.
C1_ChildInheritsTraceId ==
    ( /\ last.op \in StartOps
      /\ last.parent # Null
      /\ \E h \in Before : heap[h].spanId = last.parent )
    => /\ last.outcome = "ok"
       /\ heap[last.span].parentSpanId = last.parent
       /\ \A h \in Before :
            heap[h].spanId = last.parent => heap[last.span].traceId = heap[h].traceId

\* C2: for every traceId t the stored sequence, and what GetTrace(t) returns
\* when it returns a list, is exactly the spans whose traceId is t in the
\* order their StartSpan calls completed.
C2_GetTraceIsTraceInOrder ==
    /\ \A t \in Ids : Stored(t) = ByCreation(t)
    /\ \A t \in DOMAIN traces : \A i \in 1 .. Len(traces[t]) : heap[traces[t][i]].traceId = t
    /\ (last.op \in GetOps /\ last.ret \in {"array", "slice"})
         => last.seq = ByCreation(last.key)

C2_Witness ==
    /\ last.op \in GetOps
    /\ Len(last.seq) = 2
    /\ last.seq = ByCreation(last.key)
    /\ \E h \in Handles : heap[h].status = "OK"

\* C3: StartSpan with a parentSpanId that is the spanId of no stored span ends
\* in an explicit UnknownParent error and leaves the registry as it was.
C3_UnknownParentRejected ==
    [][ \A name \in Names, p \in Ids :
          ( /\ startSpan(name, p) \/ StartSpan(name, p)
            /\ \A h \in Handles : heap[h].spanId # p )
          => /\ last'.outcome = "UnknownParent"
             /\ traces' = traces
             /\ heap' = heap ]_vars

\* C7: GetTrace(t) for a traceId no stored span has returns a sequence of zero
\* elements, signals no error and adds no key for t.
C7_UnknownTraceIsEmptySequence ==
    ( /\ last.op \in GetOps
      /\ \A h \in Handles : heap[h].traceId # last.key )
    => /\ last.outcome = "ok"
       /\ last.ret \in {"array", "slice"}
       /\ last.seq = <<>>
       /\ last.key \notin DOMAIN traces

\* C8 as claimed: every StartSpan without a parent yields a span whose traceId
\* no span already stored has, and the root is the only element of its
\* sequence when it is stored.
C8_RootTraceIdAlwaysFresh ==
    [][ ( /\ last'.op \in StartOps
          /\ last' # last
          /\ last'.parent = Null )
        => LET h == last'.span
           IN  /\ \A g \in Handles : heap[g].traceId # heap'[h].traceId
               /\ traces'[heap'[h].traceId] = <<h>> ]_vars

\* C8 amended: a StartSpan without a parent takes the identifier the generator
\* returns and never compares it with the registry.  The root's traceId
\* differs from that of every stored span, and the root is the only element
\* of a newly created sequence, exactly when the generated identifier is not
\* yet a key of the registry; when it is, the root is appended to the
\* sequence already stored under it.
C8_RootFreshUnlessGeneratorRepeats ==
    [][ ( /\ last'.op \in StartOps
          /\ last' # last
          /\ last'.parent = Null )
        => LET h == last'.span
               t == heap'[h].traceId
           IN  /\ last'.outcome = "ok"
               /\ (t \notin DOMAIN traces)
                    <=> (traces'[t] = <<h>> /\ \A g \in Handles : heap[g].traceId # t)
               /\ (t \in DOMAIN traces) => traces'[t] = Append(traces[t], h) ]_vars

C8_Witness ==
    /\ last.op \in StartOps
    /\ last.parent = Null
    /\ Cardinality(DOMAIN traces) = 2
    /\ \A t \in DOMAIN traces : Len(traces[t]) = 1
    /\ \A h \in Handles : heap[h].parentSpanId = Null
\* C4: once EndSpan has set a span's endTime, no later operation changes that
\* endTime, nor the status and attributes the first EndSpan left.
C4_EndedSpanIsFrozen ==
    [][ \A h \in Handles :
          heap[h].endTime # NoTime
          => /\ heap'[h].endTime = heap[h].endTime
             /\ heap'[h].status = heap[h].status
             /\ heap'[h].attributes = heap[h].attributes ]_vars

\* C5: a span's status is UNSET until the first EndSpan on it, and OK or
\* ERROR in every state after an EndSpan on it, whatever status was supplied.
\* (A span has been ended exactly when its endTime is set.)
C5_StatusMachine ==
    \A h \in Handles :
       /\ heap[h].endTime = NoTime => heap[h].status = "UNSET"
       /\ heap[h].endTime # NoTime => heap[h].status \in {"OK", "ERROR"}

\* C6: EndSpan(span, status, A) leaves the span's attributes equal to the
\* previous attributes overridden by A, and over any step the key set of a
\* span's attributes never shrinks.
C6_AttributesMergeAndGrow ==
    [][ /\ \A h \in Handles :
             (DOMAIN heap[h].attributes) \subseteq (DOMAIN heap'[h].attributes)
        /\ (last'.op \in EndOps /\ now' = now)
             => LET old == heap[last'.span].attributes
                    new == heap'[last'.span].attributes
                    A   == last'.attrs
                IN  /\ DOMAIN new = (DOMAIN old) \cup (DOMAIN A)
                    /\ \A k \in DOMAIN A : new[k] = A[k]
                    /\ \A k \in (DOMAIN old) \ (DOMAIN A) : new[k] = old[k] ]_vars

C6_Witness ==
    /\ last.op \in EndOps
    /\ last.attrs = [k \in {"error"} |-> "timeout"]
    /\ heap[last.span].attributes = [k \in Keys |-> IF k = "rows" THEN "10" ELSE "timeout"]
\* How often handle h occurs in the sequence q.
Occurrences(h, q) == Cardinality({i \in 1 .. Len(q) : q[i] = h})

\* C9: when StartSpan calls run concurrently on one registry, then once all
\* calls have finished every returned span is present exactly once in the
\* sequence of its traceId: no append is lost.
C9_NoLostAppend ==
    (\A g \in Procs : pc[g] = "idle")
    => \A h \in returned : Occurrences(h, Stored(heap[h].traceId)) = 1
\* C10: a failure of the log or export sink during EndSpan or ExportTraces is
\* returned or signalled to the caller of that operation: it is not merely
\* printed, and the call does not end as if nothing had happened.
C10_SinkFailureReachesCaller ==
    (last.op \in {"CtxEndSpan", "ExportTraces"} /\ last.sink = "failed")
    => last.outcome # "ok"

\* C11: after EndSpan the span's status is OK when the call left the status
\* argument out (possible in Tracer.js only), and is exactly the argument when
\* one was passed, whatever the span's status was before.
C11_EndSpanStatusArgument ==
    last.op \in EndOps =>
        heap[last.span].status = (IF last.status = Omitted THEN "OK" ELSE last.status)

\* A span ended without a status argument, now OK and stamped.
C11_Witness ==
    /\ last.op = "endSpan"
    /\ last.status = Omitted
    /\ heap[last.span].status = "OK"
    /\ heap[last.span].endTime # NoTime

ExportOps == {"exportTraces", "ExportTraces"}

\* C12: ExportTraces is read-only.  Over a step that ends in an export the
\* registry mapping and every field of every span object are what they were,
\* so what GetTrace gives for any key is the same after as before, however
\* many exports are made between other calls.
C12_ExportIsReadOnly ==
    [][last'.op \in ExportOps =>
          /\ traces' = traces
          /\ heap' = heap
          /\ \A k \in Ids :
                (IF k \in DOMAIN traces' THEN traces'[k] ELSE <<>>)
                    = (IF k \in DOMAIN traces THEN traces[k] ELSE <<>>)]_vars

\* An export made of a registry that holds an ended span, the registry still
\* holding it afterwards.
C12_Witness ==
    /\ last.op \in ExportOps
    /\ last.sink = "ok"
    /\ \E k \in DOMAIN traces :
          /\ traces[k] # <<>>
          /\ heap[traces[k][1]].endTime # NoTime
          /\ k \in DOMAIN last.out

Registry(tr, hp) ==
    [k \in DOMAIN tr |-> [i \in 1 .. Len(tr[k]) |-> hp[tr[k][i]]]]

\* JSON.parse of the exported text: every key, array element and property of
\* the document, a null read as null.
JSONParse(doc) ==
    [k \in DOMAIN doc |->
       [i \in 1 .. Len(doc[k]) |->
          [f \in DOMAIN doc[k][i] |->
             IF f = "attributes"
             THEN [a \in DOMAIN doc[k][i][f] |-> doc[k][i][f][a]]
             ELSE doc[k][i][f]]]]

\* C14: export round trip.  Parsing what ExportTraces wrote gives a mapping
\* equal to the registry at the time of the export: the same keys, the same
\* spans in the same order, the same value in every field, spans not yet
\* ended and attribute values of every kind the registry took included.
C14_ExportRoundTrip ==
    /\ last.op = "exportTraces" => JSONParse(last.out) = Registry(traces, heap)
    /\ last.op = "ExportTraces" => Unmarshal(last.out) = Registry(traces, heap)

\* tr is carried over into tr2: every key is still there and what it held is
\* the beginning of what it holds, in the same order.
Extends(tr2, tr) ==
    \A k \in DOMAIN tr :
        /\ k \in DOMAIN tr2
        /\ Len(tr2[k]) >= Len(tr[k])
        /\ SubSeq(tr2[k], 1, Len(tr[k])) = tr[k]

\* C15: a StartSpan that returns a span changes the registry only by putting
\* that one new span (status UNSET, no attributes, no endTime) at the end of
\* the sequence of its traceId, a sequence made for it when there was none;
\* every other sequence and every span stored before is as it was.  No step
\* of any operation removes a stored span or changes the order of a sequence.
C15_StartSpanOnlyAppends ==
    [][/\ Extends(traces', traces)
       /\ Len(heap') >= Len(heap)
       /\ (last' # last /\ last'.op \in StartOps /\ last'.outcome = "ok") =>
             LET h == last'.span
                 t == heap'[h].traceId
             IN  /\ h = Len(heap) + 1
                 /\ heap' = Append(heap, heap'[h])
                 /\ heap'[h].status = "UNSET"
                 /\ heap'[h].attributes = EmptyAttrs
                 /\ heap'[h].endTime = NoTime
                 /\ DOMAIN traces' = (DOMAIN traces) \cup {t}
                 /\ traces'[t] = (IF t \in DOMAIN traces THEN traces[t] ELSE <<>>) \o <<h>>
                 /\ \A k \in (DOMAIN traces) \ {t} : traces'[k] = traces[k]]_vars

\* A span just started into a trace that already held an ended span, next to
\* another trace.
C15_Witness ==
    /\ last.op \in StartOps
    /\ last.outcome = "ok"
    /\ Len(traces[heap[last.span].traceId]) >= 2
    /\ heap[traces[heap[last.span].traceId][1]].endTime # NoTime

At(op, h) ==
    {i \in 1 .. Len(example.log) : example.log[i] = [op |-> op, span |-> h]}

\* processOrder's promise has settled.
Settled == example.pc \in {"export", "done", "rethrown", "failed"}

\* C17: in every run of processOrder, the runs in which a step throws among
\* them, each span startSpan returned is ended once and no more (once
\* exactly when processOrder has settled); the steps run in the order
\* validateOrder, updateInventory, processPayment, each step's span ended
\* before the next step's span is started; and the root span is ended after
\* every step span that was started.
C17_ExampleSpansEndedOnceInOrder ==
    /\ \A h \in Handles :
          /\ Cardinality(At("startSpan", h)) = 1
          /\ Cardinality(At("endSpan", h)) <= 1
          /\ Settled => Cardinality(At("endSpan", h)) = 1
          /\ At("endSpan", h) # {} <=> heap[h].endTime # NoTime
    /\ \A h \in Handles \ {example.rootSpan} :
          /\ heap[h].name = Steps[h - 1]
          /\ \A g \in Handles \ {example.rootSpan} :
                g < h => \E i \in At("endSpan", g), j \in At("startSpan", h) : i < j
    /\ \A i \in At("endSpan", example.rootSpan) :
          \A h \in Handles \ {example.rootSpan} :
              /\ \E j \in At("endSpan", h) : j < i
              /\ \A j \in At("startSpan", h) : j < i

\* processOrder has resolved with all three steps run: four spans, each
\* started and ended once, the root last.
C17_Witness ==
    /\ example.pc = "export"
    /\ Len(heap) = 1 + Len(Steps)
    /\ \A h \in Handles : heap[h].status = "OK" /\ Cardinality(At("endSpan", h)) = 1
    /\ example.log[Len(example.log)] = [op |-> "endSpan", span |-> example.rootSpan]

\* C18: runExample calls exportTraces only once processOrder has resolved
\* with its root span ended OK.  When a step throws (its startSpan call
\* included) no further step is started, the root span is ended ERROR with an
\* 'error' attribute, the error reaches runExample's catch, and exportTraces
\* is not called in that run.
C18_ExportOnlyAfterSuccess ==
    /\ \A i \in At("exportTraces", 0) :
          /\ At("throw", 0) = {}
          /\ \E j \in At("endSpan", example.rootSpan) : j < i
          /\ heap[example.rootSpan].status = "OK"
          /\ heap[example.rootSpan].endTime # NoTime
    /\ \A i \in At("throw", 0) :
          /\ \A j \in (i + 1) .. Len(example.log) : example.log[j].op # "startSpan"
          /\ At("exportTraces", 0) = {}
          /\ example.pc \in {"catch", "rethrown", "failed"}
          /\ example.pc # "catch" =>
                /\ \E j \in At("endSpan", example.rootSpan) : j > i
                /\ heap[example.rootSpan].status = "ERROR"
                /\ "error" \in DOMAIN heap[example.rootSpan].attributes
          /\ example.pc = "failed" <=> At("catch", 0) # {}
    /\ example.pc \in {"rethrown", "failed"} => At("throw", 0) # {}
    /\ example.pc = "done" <=> At("exportTraces", 0) # {}

\* validateOrder's startSpan threw: the root span is ended ERROR with the
\* message, runExample has caught the error, and nothing was exported.
C18_Witness ==
    /\ example.pc = "failed"
    /\ At("throw", 0) # {}
    /\ Len(heap) = 1
    /\ heap[example.rootSpan].status = "ERROR"
    /\ heap[example.rootSpan].attributes = [k \in {"error"} |-> TypeErrorMessage]
    /\ last.op # "exportTraces"

====
